---------------------------- MODULE Spec2Model ----------------------------
(***************************************************************************)
(* A model of app.py: the image preprocessor compress_image and the /chat  *)
(* request handler with its single call to the completion provider.        *)
(*                                                                         *)
(* Text is a sequence of character codes (32 is a space, 10 a newline), so *)
(* that str.strip() and string concatenation are computed, not assumed.    *)
(* A turn is a record [role, content]; the payload of an image request     *)
(* holds one turn whose content is a sequence of parts.                    *)
(***************************************************************************)
EXTENDS Integers, Sequences, FiniteSets, TLC

VARIABLES
    pc,                   \* "idle" | "received" | "calling" | "responded"
    request,              \* the request the client sent
    user_message,         \* chat(): data.get('message', '').strip()
    conversation_history, \* chat(): data.get('conversation_history', [])
    processed_image,      \* chat(): what compress_image(image) gave
    messages,             \* chat(): the message list of the payload
    calls,                \* requests.post calls made for the current request
    reply,                \* what the provider call returned or raised
    response,             \* the response of the current request
    responses,            \* responses sent for the current request
    clientHist,           \* the history the client holds between requests
    round,                \* requests the conversation's client has sent
    cimg,                 \* compress_image under test: the input image
    cout,                 \* its result on the input
    cout2,                \* its result on its own output
    cstep                 \* "input" | "once" | "twice"

vars == <<pc, request, user_message, conversation_history, processed_image,
          messages, calls, reply, response, responses, clientHist, round,
          cimg, cout, cout2, cstep>>

chatVars == <<pc, request, user_message, conversation_history,
              processed_image, messages, calls, reply, response, responses,
              clientHist, round>>

compressVars == <<cimg, cout, cout2, cstep>>

-----------------------------------------------------------------------------
(* Bounds of the model. *)

\* Longest conversation_history a client supplies out of the blue.
MaxHist == 44

\* Requests the client of one conversation sends.
MaxRounds == 64

\* Widest and tallest ordinary image handed to compress_image is
\* MaxSide * SideStep pixels.
MaxSide == 11

-----------------------------------------------------------------------------
(* Program constants. *)

\* src/app.py:30
MAX_PIXELS == 1700000

\* src/app.py:139  len(conversation_history) > 41
HISTORY_LIMIT == 41

\* src/app.py:140  conversation_history[-20:]
HISTORY_KEEP == 20

\* src/app.py:22-28, abstracted to the three characters "SYS"
SYSTEM_PROMPT == <<83, 89, 83>>

\* src/app.py:86-87  "\n\nBased on the above instructions, please "
PLEASE == <<10, 10, 66, 32>>

\* src/app.py:87  'provide a detailed description of this image, ...'
DEFAULT_INSTRUCTION == <<68, 69, 83, 67>>

\* src/app.py:133  "Image analysis request"
IMAGE_PLACEHOLDER == <<73, 65, 82>>

-----------------------------------------------------------------------------
(* str.strip(): leading and trailing whitespace removed. *)

\* The code points str.isspace() holds of, which str.strip() removes.
IsSpace(c) ==
    c \in (9..13) \cup (28..32) \cup {133, 160, 5760} \cup (8192..8202)
             \cup {8232, 8233, 8239, 8287, 12288}

RECURSIVE LStrip(_)
LStrip(s) ==
    IF s = <<>> THEN <<>>
    ELSE IF IsSpace(Head(s)) THEN LStrip(Tail(s))
    ELSE s

RECURSIVE RStrip(_)
RStrip(s) ==
    IF s = <<>> THEN <<>>
    ELSE IF IsSpace(s[Len(s)]) THEN RStrip(SubSeq(s, 1, Len(s) - 1))
    ELSE s

Strip(s) == RStrip(LStrip(s))

\* Python's  x or y  on strings: y when x is empty.
OrElse(x, y) == IF x = <<>> THEN y ELSE x

-----------------------------------------------------------------------------
(* Natural numbers beyond 32-bit integers, as little-endian digit          *)
(* sequences in base 10000; used to compare a*a*h with w*MAX_PIXELS.       *)

RECURSIVE BigOf(_)
BigOf(n) == IF n = 0 THEN <<>> ELSE <<n % 10000>> \o BigOf(n \div 10000)

RECURSIVE BigAdd(_, _, _)
BigAdd(x, y, c) ==
    IF x = <<>> /\ y = <<>> THEN BigOf(c)
    ELSE LET dx == IF x = <<>> THEN 0 ELSE Head(x)
             dy == IF y = <<>> THEN 0 ELSE Head(y)
             tx == IF x = <<>> THEN <<>> ELSE Tail(x)
             ty == IF y = <<>> THEN <<>> ELSE Tail(y)
             s  == dx + dy + c
         IN  <<s % 10000>> \o BigAdd(tx, ty, s \div 10000)

RECURSIVE BigScale(_, _, _)
BigScale(x, d, c) ==
    IF x = <<>> THEN BigOf(c)
    ELSE LET p == Head(x) * d + c
         IN  <<p % 10000>> \o BigScale(Tail(x), d, p \div 10000)

RECURSIVE BigMul(_, _)
BigMul(x, y) ==
    IF y = <<>> THEN <<>>
    ELSE BigAdd(BigScale(x, Head(y), 0), <<0>> \o BigMul(x, Tail(y)), 0)

RECURSIVE BigTrim(_)
BigTrim(x) ==
    IF x = <<>> THEN <<>>
    ELSE IF x[Len(x)] = 0 THEN BigTrim(SubSeq(x, 1, Len(x) - 1))
    ELSE x

RECURSIVE BigLeqFrom(_, _, _)
BigLeqFrom(x, y, i) ==
    IF i = 0 THEN TRUE
    ELSE IF x[i] # y[i] THEN x[i] < y[i]
    ELSE BigLeqFrom(x, y, i - 1)

BigLeq(x, y) ==
    LET a == BigTrim(x)
        b == BigTrim(y)
    IN  IF Len(a) # Len(b) THEN Len(a) < Len(b) ELSE BigLeqFrom(a, b, Len(a))

-----------------------------------------------------------------------------
(* compress_image.  An image is [kind, mode, w, h]: kind "badb64" is a     *)
(* string base64 cannot decode, "notimage" bytes that are no image,        *)
(* "image" a raster image of the given mode and size.                      *)

Image(mode, w, h) == [kind |-> "image", mode |-> mode, w |-> w, h |-> h]

BadBase64 == [kind |-> "badb64", mode |-> "", w |-> 0, h |-> 0]

NotAnImage == [kind |-> "notimage", mode |-> "", w |-> 0, h |-> 0]

\* The modes the JPEG encoder writes (image.save(format="JPEG")), among those
\* the images of this model take: a palette image ("P") is refused.
JpegModes == {"L", "RGB", "CMYK"}

Raised(cause) == [ok |-> FALSE, cause |-> cause, mode |-> "", w |-> 0, h |-> 0]

Encoded(mode, w, h) == [ok |-> TRUE, cause |-> "", mode |-> mode, w |-> w, h |-> h]

\* a * a * other <= side * MAX_PIXELS, that is a <= side * sqrt(MAX_PIXELS / (side * other))
Fits(a, side, other) ==
    BigLeq(BigMul(BigMul(BigOf(a), BigOf(a)), BigOf(other)),
           BigMul(BigOf(side), BigOf(MAX_PIXELS)))

RECURSIVE FloorSearch(_, _, _, _)
FloorSearch(lo, hi, side, other) ==
    IF lo = hi THEN lo
    ELSE LET mid == (lo + hi + 1) \div 2
         IN  IF Fits(mid, side, other)
             THEN FloorSearch(mid, hi, side, other)
             ELSE FloorSearch(lo, mid - 1, side, other)

\* floor(side * s) for the real number s = sqrt(MAX_PIXELS / (side * other)) < 1
ExactFloor(side, other) == FloorSearch(0, side, side, other)

\* side * s is a whole number
IsWhole(side, other) ==
    LET a == ExactFloor(side, other)
    IN  BigLeq(BigMul(BigOf(side), BigOf(MAX_PIXELS)),
               BigMul(BigMul(BigOf(a), BigOf(a)), BigOf(other)))

\* int(side * scale_factor) with scale_factor = (MAX_PIXELS / num_pixels) ** 0.5
\* in double precision.  The three roundings (division, power, product) move
\* the product by a few units in the last place: too little to cross a whole
\* number unless side * s is one exactly, and then the truncation gives that
\* number or the one below it, as the platform's pow() rounds.
ScaledSide(side, other) ==
    LET a == ExactFloor(side, other)
    IN  IF IsWhole(side, other) THEN {a - 1, a} ELSE {a}

\* image.save(buffered, format="JPEG", quality=85)
SaveJpeg(mode, w, h) ==
    IF mode \in JpegModes THEN Encoded(mode, w, h) ELSE Raised("save")

\* image.resize((new_width, new_height), Image.LANCZOS) and the save
ResizeAndSave(mode, new_width, new_height) ==
    IF new_width < 1 \/ new_height < 1 THEN Raised("resize")
    ELSE SaveJpeg(mode, new_width, new_height)

\* The outcomes of compress_image(image_data): a JPEG of some size, or an
\* exception with its cause.
compress_image(image_data) ==
    IF image_data.kind = "badb64" THEN {Raised("b64decode")}
    ELSE IF image_data.kind = "notimage" THEN {Raised("open")}
    ELSE LET mode       == IF image_data.mode = "RGBA" THEN "RGB" ELSE image_data.mode
             width      == image_data.w
             height     == image_data.h
             num_pixels == width * height
         IN  IF num_pixels > MAX_PIXELS
             THEN {ResizeAndSave(mode, nw, nh) :
                      nw \in ScaledSide(width, height),
                      nh \in ScaledSide(height, width)}
             ELSE {SaveJpeg(mode, width, height)}

\* The image a result decodes to when it is handed to compress_image again.
Decoded(out) == Image(out.mode, out.w, out.h)

-----------------------------------------------------------------------------
(* Turns, payload parts and the JSON responses of chat(). *)

Roles == {"system", "user", "assistant"}

Turn(role, content) == [role |-> role, content |-> content]

SystemTurn == Turn("system", SYSTEM_PROMPT)

NoImage == [kind |-> "none", mode |-> "", w |-> 0, h |-> 0]

\* {"type": "image_url", "image_url": {"url": f"data:image/jpeg;base64,{processed_image}"}}
ImagePart(processed) ==
    [type |-> "image_url", image |-> Decoded(processed), text |-> <<>>]

\* {"type": "text", "text": enhanced_user_message}
TextPart(text) == [type |-> "text", image |-> NoImage, text |-> text]

\* jsonify({"error": ...}), status
JsonError(status, msg, detail) ==
    [status |-> status, keys |-> {"error"},
     error |-> [msg |-> msg, detail |-> detail],
     output |-> <<>>, conversation_history |-> <<>>]

\* jsonify({"output": ..., "conversation_history": ...}), status 200 by default
JsonSuccess(output, history) ==
    [status |-> 200, keys |-> {"output", "conversation_history"},
     error |-> [msg |-> "", detail |-> ""],
     output |-> output, conversation_history |-> history]

\* No response sent yet.
NoResponse ==
    [status |-> 0, keys |-> {}, error |-> [msg |-> "", detail |-> ""],
     output |-> <<>>, conversation_history |-> <<>>]

\* except Exception as e (the handler's outermost clause)
UnexpectedResponse(cause) ==
    JsonError(500, "An unexpected error occurred: ", cause)

\* TimeoutResponse without the  except requests.Timeout  clause: the timeout
\* falls to the outermost clause.
TimeoutAsUnexpected ==
    JsonError(500, "An unexpected error occurred: ", "Read timed out.")

\* except requests.Timeout
TimeoutResponse ==
    JsonError(504, "Request to AI model timed out. Please try again.", "")

\* ProviderErrorResponse handing the provider's status on to the client.
ProviderErrorPassedOn(status_code) ==
    JsonError(status_code, "Failed to get response from the model. Status code: ",
              ToString(status_code))

\* the else branch of  response.status_code == 200
ProviderErrorResponse(status_code) ==
    JsonError(500, "Failed to get response from the model. Status code: ",
              ToString(status_code))

\* ImageErrorResponse without the inner try: the outermost clause answers.
ImageErrorAsUnexpected(cause) ==
    JsonError(500, "An unexpected error occurred: ", cause)

\* except Exception as e (around compress_image)
ImageErrorResponse(cause) == JsonError(400, "Error processing image: ", cause)

\* What the handler answers before it looks at the image, if anything: the
\* is_json test, then get_json(), data.get and .strip(), whose exceptions the
\* outermost clause turns into a 500.
EarlyResponse(r) ==
    IF ~r.is_json THEN JsonError(400, "Request must be JSON", "")
    ELSE IF ~r.parses THEN UnexpectedResponse("400 Bad Request")
    ELSE IF ~r.is_object THEN UnexpectedResponse("object has no attribute 'get'")
    ELSE IF ~r.message_is_str THEN UnexpectedResponse("object has no attribute 'strip'")
    ELSE NoResponse

\* f"{SYSTEM_PROMPT}\n\nBased on the above instructions, please {user_message or '...'}"
enhanced_user_message(um) == SYSTEM_PROMPT \o PLEASE \o OrElse(um, DEFAULT_INSTRUCTION)

\* ImageMessages seeded with the system turn, as the text branch is.
ImageMessagesSeeded(processed, um) ==
    << SystemTurn,
       Turn("user", <<ImagePart(processed), TextPart(OrElse(um, DEFAULT_INSTRUCTION))>>) >>

\* The message list of an image request.
ImageMessages(processed, um) ==
    << Turn("user", <<ImagePart(processed), TextPart(enhanced_user_message(um))>>) >>

\* TextMessages skipping the first element only when it is a system turn.
TextMessagesSkippingSystem(history, um) ==
    <<SystemTurn>>
      \o (IF history # <<>> /\ history[1].role = "system"
          THEN Tail(history) ELSE history)
      \o <<Turn("user", um)>>

\* conversation_history[1:] can be taken: of a list or a string, and it is
\* not asked of a value that is false (null, 0, '', {}, []).
Sliceable(r) == r.history_kind # "unsliceable"

\* The message list of a text-only request; history is a list, the
\* one-character strings of a string, or <<>> for a value that is false in
\* if conversation_history.
TextMessages(history, um) ==
    <<SystemTurn>>
      \o (IF history # <<>> THEN Tail(history) ELSE <<>>)
      \o <<Turn("user", um)>>

\* s[-n:]
LastN(s, n) == IF Len(s) <= n THEN s ELSE SubSeq(s, Len(s) - n + 1, Len(s))

\* UpdatedHistory adding the image exchange to the supplied history.
UpdatedHistoryKeeping(has_image, history, um, generated_text) ==
    IF has_image
    THEN history \o << Turn("user", OrElse(um, IMAGE_PLACEHOLDER)),
                       Turn("assistant", generated_text) >>
    ELSE Append(history, Turn("assistant", generated_text))

\* UpdatedHistory storing the user's message of a text exchange too.
UpdatedHistoryWithUser(has_image, history, um, generated_text) ==
    IF has_image
    THEN << Turn("user", OrElse(um, IMAGE_PLACEHOLDER)),
            Turn("assistant", generated_text) >>
    ELSE history \o << Turn("user", um), Turn("assistant", generated_text) >>

\* The history after a reply, before the length test.
UpdatedHistory(has_image, history, um, generated_text) ==
    IF has_image
    THEN << Turn("user", OrElse(um, IMAGE_PLACEHOLDER)),
            Turn("assistant", generated_text) >>
    ELSE Append(history, Turn("assistant", generated_text))

\* CapHistory cutting at 41 turns already.
CapHistoryEarly(history) ==
    IF Len(history) >= HISTORY_LIMIT
    THEN <<SystemTurn>> \o LastN(history, HISTORY_KEEP)
    ELSE history

\* if len(conversation_history) > 41: ...
CapHistory(history) ==
    IF Len(history) > HISTORY_LIMIT
    THEN <<SystemTurn>> \o LastN(history, HISTORY_KEEP)
    ELSE history

\* What requests.post returned or raised.
Timeout == [kind |-> "timeout", status_code |-> 0, body |-> "", content |-> <<>>]

ConnectionError == [kind |-> "conn_error", status_code |-> 0, body |-> "", content |-> <<>>]

\* body: "ok" holds choices[0].message.content as a string, "null_content"
\* holds it as null, "no_choices" lacks it, "not_json" is no JSON at all.
HttpReply(status_code, body, content) ==
    [kind |-> "http", status_code |-> status_code, body |-> body, content |-> content]

\* Lines 124-154: the response the handler gives for the provider's reply.
HandleReply(rep, r, um, history) ==
    IF rep.kind = "timeout" THEN TimeoutResponse
    ELSE IF rep.kind = "conn_error" THEN UnexpectedResponse("ConnectionError")
    ELSE IF rep.status_code # 200 THEN ProviderErrorResponse(rep.status_code)
    ELSE IF rep.body = "not_json" THEN UnexpectedResponse("JSONDecodeError")
    ELSE IF rep.body = "no_choices" THEN UnexpectedResponse("'choices'")
    ELSE IF r.image.kind = "none" /\ r.history_kind # "list"
         THEN UnexpectedResponse("object has no attribute 'append'")
    ELSE IF rep.body = "null_content"
         THEN UnexpectedResponse("'NoneType' object has no attribute 'strip'")
    ELSE JsonSuccess(Strip(rep.content),
                     CapHistory(UpdatedHistory(r.image.kind # "none", history,
                                               um, rep.content)))

-----------------------------------------------------------------------------
(* The inputs: what clients send and what the provider answers. *)

\* A request body.  is_json: the content type is JSON; parses: the body is
\* valid JSON; is_object: the JSON value is an object; message_is_str: its
\* message is a string (an absent message is the string '').  An absent, null
\* or empty image is NoImage; an absent history is the empty list.
\* history_kind: "list"; "null", a value that is false and no list (null, 0,
\* '', {}), held as <<>>; "string", a non-empty string, held as its
\* one-character strings; "unsliceable", a value that is true and cannot be
\* sliced (a number, true, a non-empty object), held as <<>>.
Request(message, image, history_kind, history) ==
    [is_json |-> TRUE, parses |-> TRUE, is_object |-> TRUE,
     message_is_str |-> TRUE, message |-> message, image |-> image,
     history_kind |-> history_kind, conversation_history |-> history]

NoRequest == Request(<<>>, NoImage, "list", <<>>)

NotJsonContentType == [NoRequest EXCEPT !.is_json = FALSE]

UnparsableBody == [NoRequest EXCEPT !.parses = FALSE]

NotAnObject == [NoRequest EXCEPT !.is_object = FALSE]

MessageNotString == [NoRequest EXCEPT !.message_is_str = FALSE]

\* {"conversation_history": 5}
HistoryNotSliceable == [NoRequest EXCEPT !.history_kind = "unsliceable"]

\* The bodies the handler cannot go on with.
MalformedRequests ==
    {NotJsonContentType, UnparsableBody, NotAnObject, MessageNotString,
     HistoryNotSliceable}

\* '', ' \x0b\n', 'hi', ' h i\n', '\xa0hi\u3000\x0c'
Messages ==
    {<<>>, <<32, 11, 10>>, <<104, 105>>, <<32, 104, 32, 105, 10>>,
     <<160, 104, 105, 12288, 12>>}

\* The history "abc", as indexing and slicing give it.
StringHistory == << <<97>>, <<98>>, <<99>> >>

ChatImages ==
    {NoImage, BadBase64, NotAnImage, Image("RGB", 640, 480),
     Image("RGBA", 1520, 2584), Image("P", 320, 200), Image("RGB", 1, 1700001)}

\* A history of n turns whose first turn has the given role.
MkHistory(n, first) ==
    [i \in 1..n |->
        Turn(IF i = 1 THEN first ELSE IF i % 2 = 0 THEN "user" ELSE "assistant",
             <<300 + i>>)]

SuppliedHistories == {MkHistory(n, first) : n \in 0..MaxHist, first \in Roles}

WellFormedRequests ==
    {Request(m, img, "list", h) :
        m \in Messages, img \in ChatImages, h \in SuppliedHistories}
    \cup {Request(m, img, "null", <<>>) : m \in Messages, img \in ChatImages}
    \cup {Request(m, img, "unsliceable", <<>>) :
             m \in Messages, img \in ChatImages}

\* Requests whose conversation_history is a non-empty string.
StringHistoryRequests ==
    {Request(m, img, "string", StringHistory) :
        m \in Messages, img \in ChatImages}

\* The message the conversation's client sends in its n-th exchange.
UserText(n) == <<32, 1000 + n, 10>>

\* The text the provider generates for a request with that message.
ReplyText(um) == <<32, 79>> \o um \o <<10>>

ProviderOutcomes(um) ==
    {Timeout, ConnectionError, HttpReply(503, "", <<>>),
     HttpReply(200, "not_json", <<>>), HttpReply(200, "no_choices", <<>>),
     HttpReply(200, "null_content", <<>>), HttpReply(200, "ok", ReplyText(um))}

NoReply == [kind |-> "none", status_code |-> 0, body |-> "", content |-> <<>>]

\* Sides of the ordinary test images; all sides stay within what the JPEG
\* encoder accepts, so that a save fails for the mode alone.
GridSide(i) == 400 * i

TestImages ==
    {Image(mode, GridSide(i), GridSide(j)) :
        mode \in {"RGB", "RGBA"}, i \in 1..MaxSide, j \in 1..MaxSide}
    \cup {Image("RGB", 1520, 2584), Image("RGBA", 2584, 1520),
          Image("L", 1000, 1700), Image("RGB", 1700, 1001),
          Image("RGB", 1, 1700001), Image("RGB", 1700001, 1),
          Image("P", 100, 100), BadBase64, NotAnImage}

-----------------------------------------------------------------------------
(* The state machine. *)

ChatIdle ==
    /\ pc = "idle"
    /\ request = NoRequest
    /\ user_message = <<>>
    /\ conversation_history = <<>>
    /\ processed_image = Raised("")
    /\ messages = <<>>
    /\ calls = 0
    /\ reply = NoReply
    /\ response = NoResponse
    /\ responses = 0

CompressIdle ==
    /\ cimg = NoImage
    /\ cout = Raised("")
    /\ cout2 = Raised("")
    /\ cstep = "idle"

Init ==
    /\ ChatIdle
    /\ clientHist = <<>>
    /\ round = 0
    /\ CompressIdle

\* Between requests the handler holds nothing.
Forget ==
    /\ pc' = "idle"
    /\ request' = NoRequest
    /\ user_message' = <<>>
    /\ conversation_history' = <<>>
    /\ processed_image' = Raised("")
    /\ messages' = <<>>
    /\ calls' = 0
    /\ reply' = NoReply
    /\ response' = NoResponse
    /\ responses' = 0

\* A request arrives at POST /chat.
Arrive(req) ==
    /\ pc = "idle"
    /\ pc' = "received"
    /\ request' = req
    /\ UNCHANGED <<user_message, conversation_history, processed_image,
                   messages, calls, reply, response, responses, clientHist,
                   round>>
    /\ UNCHANGED compressVars

\* A client sends any request.
Submit ==
    \/ \E req \in MalformedRequests \cup WellFormedRequests : Arrive(req)
    \/ \E req \in StringHistoryRequests : Arrive(req)

\* The client of a conversation sends its next message with the history it
\* holds, unchanged.
Resubmit ==
    /\ round < MaxRounds
    /\ Arrive(Request(UserText(round + 1), NoImage, "list", clientHist))

\* The handler answers.
Respond(resp) ==
    /\ response' = resp
    /\ responses' = responses + 1
    /\ pc' = "responded"

\* chat(), lines 65-123: validation and the assembly of the payload.
ChatReceive ==
    /\ pc = "received"
    /\ IF EarlyResponse(request).status # 0
       THEN /\ Respond(EarlyResponse(request))
            /\ UNCHANGED <<user_message, conversation_history,
                           processed_image, messages>>
       ELSE /\ user_message' = Strip(request.message)
            /\ conversation_history' = request.conversation_history
            /\ IF request.image.kind # "none"
               THEN \E out \in compress_image(request.image) :
                       /\ processed_image' = out
                       /\ IF out.ok
                          THEN /\ messages' = ImageMessages(out, user_message')
                               /\ pc' = "calling"
                               /\ UNCHANGED <<response, responses>>
                          ELSE /\ Respond(ImageErrorResponse(out.cause))
                               /\ UNCHANGED messages
               ELSE IF Sliceable(request)
               THEN /\ messages' = TextMessages(conversation_history', user_message')
                    /\ pc' = "calling"
                    /\ UNCHANGED <<processed_image, response, responses>>
               ELSE /\ Respond(UnexpectedResponse("object is not subscriptable"))
                    /\ UNCHANGED <<processed_image, messages>>
    /\ UNCHANGED <<request, calls, reply, clientHist, round>>
    /\ UNCHANGED compressVars

\* chat(), lines 124-154: the one requests.post and the handling of its result.
ProviderCall ==
    /\ pc = "calling"
    /\ calls' = calls + 1
    /\ \E rep \in ProviderOutcomes(user_message) :
          /\ reply' = rep
          /\ Respond(HandleReply(rep, request, user_message, conversation_history))
    /\ UNCHANGED <<request, user_message, conversation_history,
                   processed_image, messages, clientHist, round>>
    /\ UNCHANGED compressVars

\* The response leaves; the server keeps nothing of the request.
Deliver ==
    /\ pc = "responded"
    /\ Forget
    /\ UNCHANGED <<clientHist, round>>
    /\ UNCHANGED compressVars

\* The conversation's client keeps the returned history of a success for its
\* next request, and tries again after a failure.
ClientStore ==
    /\ pc = "responded"
    /\ Forget
    /\ IF response.status = 200
       THEN /\ clientHist' = response.conversation_history
            /\ round' = round + 1
       ELSE UNCHANGED <<clientHist, round>>
    /\ UNCHANGED compressVars

Next == Submit \/ ChatReceive \/ ProviderCall \/ Deliver

Spec == Init /\ [][Next]_vars

NextConv == Resubmit \/ ChatReceive \/ ProviderCall \/ ClientStore

SpecConv == Init /\ [][NextConv]_vars

\* compress_image on its own: an image, its compression, the compression of
\* the result.
InitCompress ==
    /\ ChatIdle
    /\ clientHist = <<>>
    /\ round = 0
    /\ cimg \in TestImages
    /\ cout = Raised("")
    /\ cout2 = Raised("")
    /\ cstep = "input"

CompressOnce ==
    /\ cstep = "input"
    /\ cout' \in compress_image(cimg)
    /\ cstep' = "once"
    /\ UNCHANGED <<cimg, cout2>>
    /\ UNCHANGED chatVars

CompressAgain ==
    /\ cstep = "once"
    /\ cout.ok
    /\ cout2' \in compress_image(Decoded(cout))
    /\ cstep' = "twice"
    /\ UNCHANGED <<cimg, cout>>
    /\ UNCHANGED chatVars

NextCompress == CompressOnce \/ CompressAgain

SpecCompress == InitCompress /\ [][NextCompress]_vars

-----------------------------------------------------------------------------
(* The properties. *)

\* c is m without its leading and trailing whitespace, said without Strip.
IsTrimOf(c, m) ==
    /\ c = <<>> \/ (~IsSpace(c[1]) /\ ~IsSpace(c[Len(c)]))
    /\ \E i \in 0..Len(m) :
          /\ i + Len(c) <= Len(m)
          /\ SubSeq(m, i + 1, i + Len(c)) = c
          /\ \A k \in 1..i : IsSpace(m[k])
          /\ \A k \in (i + Len(c) + 1)..Len(m) : IsSpace(m[k])

\* The request passed the handler's first lines (JSON object, string message).
WellFormed ==
    request.is_json /\ request.parses /\ request.is_object /\ request.message_is_str

TextOnly == WellFormed /\ request.image.kind = "none"

WithImage == WellFormed /\ request.image.kind # "none"

Succeeded == pc = "responded" /\ response.status = 200

\* The supplied history followed by the new assistant turn.
Grown == Append(request.conversation_history, Turn("assistant", reply.content))

\* C1: a successful text-only request returns the supplied history plus the
\* new assistant turn when that has at most 41 turns (the user's message is
\* not added), and otherwise the system turn followed by its last 20 turns:
\* 21 turns ending with the new assistant turn.
C1_TextHistory ==
    (Succeeded /\ TextOnly) =>
        LET S == Grown
            R == response.conversation_history
        IN  IF Len(S) <= 41
            THEN /\ R = S
                 /\ Len(R) = Len(request.conversation_history) + 1
                 /\ R[Len(R)].role = "assistant"
            ELSE /\ Len(R) = 21
                 /\ R[1] = Turn("system", SYSTEM_PROMPT)
                 /\ \A i \in 1..20 : R[i + 1] = S[Len(S) - 20 + i]
                 /\ R[21] = Turn("assistant", reply.content)

\* C1's case: a supplied history of 41 turns grows to 42 and is cut to 21.
C1_Witness ==
    /\ Succeeded /\ TextOnly
    /\ Len(request.conversation_history) = 41
    /\ Len(response.conversation_history) = 21

\* C2: the payload of a text-only request is the system turn, the supplied
\* history without its first element (whatever its role), and the trimmed
\* message as a user turn.
C2_TextPayload ==
    (pc = "calling" /\ TextOnly) =>
        LET H == request.conversation_history
            n == IF Len(H) = 0 THEN 0 ELSE Len(H) - 1
        IN  /\ Len(messages) = n + 2
            /\ messages[1] = Turn("system", SYSTEM_PROMPT)
            /\ \A i \in 1..n : messages[i + 1] = H[i + 1]
            /\ messages[n + 2].role = "user"
            /\ IsTrimOf(messages[n + 2].content, request.message)

\* C2's case: a history whose first turn is no system turn, and loses it.
C2_Witness ==
    /\ pc = "calling" /\ TextOnly
    /\ Len(request.conversation_history) >= 3
    /\ request.conversation_history[1].role = "user"
    /\ Len(messages) = Len(request.conversation_history) + 1
    /\ request.message # user_message

\* C3: the payload of a request whose image was preprocessed is one user
\* turn [image part, text part], whatever the supplied history; the text is
\* the system instruction followed by the trimmed message, or by the default
\* instruction when the trimmed message is empty.
C3_ImagePayload ==
    (pc = "calling" /\ WithImage) =>
        /\ Len(messages) = 1
        /\ messages[1].role = "user"
        /\ Len(messages[1].content) = 2
        /\ messages[1].content[1].type = "image_url"
        /\ messages[1].content[1].image = Decoded(processed_image)
        /\ messages[1].content[2].type = "text"
        /\ \E c \in {user_message} :
              /\ IsTrimOf(c, request.message)
              /\ messages[1].content[2].text =
                    SYSTEM_PROMPT \o PLEASE
                       \o (IF c = <<>> THEN DEFAULT_INSTRUCTION ELSE c)

\* C3's case: an image with an empty message and a long supplied history.
C3_Witness ==
    /\ pc = "calling" /\ WithImage
    /\ Len(request.conversation_history) >= 2
    /\ request.message # <<>> /\ user_message = <<>>
    /\ Len(messages) = 1

\* C4: a successful image request returns exactly the two turns
\* [user: message or "Image analysis request", assistant: generated text],
\* whatever history was supplied.
C4_ImageHistory ==
    (Succeeded /\ WithImage) =>
        \E c \in {user_message} :
            /\ IsTrimOf(c, request.message)
            /\ response.conversation_history =
                  << Turn("user", IF c = <<>> THEN IMAGE_PLACEHOLDER ELSE c),
                     Turn("assistant", reply.content) >>

\* C4's case: the placeholder, with a supplied history longer than the cap.
C4_Witness ==
    /\ Succeeded /\ WithImage
    /\ Len(request.conversation_history) > 41
    /\ user_message = <<>>
    /\ Len(response.conversation_history) = 2

\* C5: a request whose body is not valid JSON or has the wrong shape is
\* answered 400 with an {error} body, and the provider is not called.
C5_MalformedIs400 ==
    (pc = "responded" /\ ~WellFormed) =>
        /\ response.status = 400
        /\ response.keys = {"error"}
        /\ calls = 0

\* C6: when the preprocessing of a present image fails, the answer is 400
\* with an {error} body carrying the cause, and the provider is not called.
C6_ImageFailureIs400 ==
    (WithImage /\ pc \in {"calling", "responded"} /\ ~processed_image.ok) =>
        /\ pc = "responded"
        /\ response.status = 400
        /\ response.keys = {"error"}
        /\ response.error.detail = processed_image.cause
        /\ processed_image.cause \in {"b64decode", "open", "resize", "save"}
        /\ calls = 0
        /\ reply.kind = "none"

\* C6's case: the resize step failed.
C6_Witness ==
    /\ pc = "responded" /\ WithImage
    /\ processed_image.cause = "resize"
    /\ response.status = 400

\* C7: when the provider call times out the request fails with 504 and an
\* {error} body, after exactly one call.
C7_TimeoutIs504 ==
    /\ calls <= 1
    /\ (pc = "responded" /\ reply.kind = "timeout") =>
          /\ response.status = 504
          /\ response.keys = {"error"}
          /\ calls = 1
          /\ responses = 1

\* C7's case: a timed-out call.
C7_Witness == pc = "responded" /\ reply.kind = "timeout" /\ calls = 1

\* C8: every request gets exactly one response and the handler never stops
\* without one (each of its two steps can be taken): the success shape with 200, only after a provider reply with
\* status 200, or the error shape alone with 400, 500 or 504; a provider
\* reply that is not 200, or a 200 without choices[0].message.content, gives 500.
C8_OneResponse ==
    /\ responses <= 1
    /\ pc = "received" =>
          \/ EarlyResponse(request).status # 0
          \/ request.image.kind = "none"
          \/ compress_image(request.image) # {}
    /\ pc = "calling" => ENABLED ProviderCall
    /\ pc \in {"received", "calling"} => responses = 0
    /\ pc = "responded" =>
          /\ responses = 1
          /\ \/ /\ response.status = 200
                /\ response.keys = {"output", "conversation_history"}
                /\ reply.kind = "http" /\ reply.status_code = 200
             \/ /\ response.status \in {400, 500, 504}
                /\ response.keys = {"error"}
          /\ (reply.kind = "http" /\ reply.status_code # 200) => response.status = 500
          /\ (reply.kind = "http" /\ reply.body \in {"no_choices", "not_json"})
                => response.status = 500

\* C8's case: the provider answered 503.
C8_Witness ==
    /\ pc = "responded"
    /\ reply.kind = "http" /\ reply.status_code = 503
    /\ response.status = 500

\* C9: compress_image gives every valid image an output: of the same size
\* when it has at most MAX_PIXELS pixels, and otherwise of size
\* (floor(w*s), floor(h*s)) with s = sqrt(MAX_PIXELS/(w*h)), within
\* MAX_PIXELS; compressing the output again leaves its size unchanged.
C9_CompressedSize ==
    (cstep \in {"once", "twice"} /\ cimg.kind = "image"
        /\ cimg.mode \in {"RGB", "RGBA", "L"}) =>
        /\ cout.ok
        /\ IF cimg.w * cimg.h <= MAX_PIXELS
           THEN cout.w = cimg.w /\ cout.h = cimg.h
           ELSE /\ cout.w = ExactFloor(cimg.w, cimg.h)
                /\ cout.h = ExactFloor(cimg.h, cimg.w)
                /\ cout.w * cout.h <= MAX_PIXELS
        /\ cstep = "twice" => cout2.ok /\ cout2.w = cout.w /\ cout2.h = cout.h

\* The first reply of the conversation, as a turn.
FirstReply == Turn("assistant", <<32, 79, 1001, 10>>)

\* Only assistant turns, after a system turn exactly when cut is true.
OnlyAssistant(h, cut) ==
    /\ Len(h) <= 41
    /\ \A i \in 1..Len(h) :
          IF i = 1 /\ cut
          THEN h[i] = Turn("system", SYSTEM_PROMPT)
          ELSE h[i].role = "assistant"

\* C10: in a text-only conversation that starts empty and resubmits each
\* returned history, every returned history has 1 to 41 turns, all of them
\* assistant turns but for a system turn at index 0 once the history was
\* cut; the payload holds no user message but the current one, and never the
\* first assistant reply.
C10_Conversation ==
    /\ OnlyAssistant(clientHist, round >= 42)
    /\ round >= 1 => Len(clientHist) >= 1
    /\ Succeeded =>
          /\ Len(response.conversation_history) >= 1
          /\ OnlyAssistant(response.conversation_history, round >= 41)
    /\ pc = "calling" =>
          /\ \A i \in 1..Len(messages) :
                messages[i].role = "user" <=> i = Len(messages)
          /\ messages[Len(messages)].content = <<1000 + round + 1>>
          /\ \A i \in 1..Len(messages) : messages[i] # FirstReply
          /\ round >= 1 => clientHist[1] = FirstReply \/ round >= 42

\* C10's case: after the cut the history has grown back to 41 turns.
C10_Witness ==
    /\ Succeeded
    /\ Len(response.conversation_history) = 41
    /\ response.conversation_history[1].role = "system"
    /\ clientHist[1].role = "system"

=============================================================================
